---- MODULE Spec2Model ----
(***************************************************************************)
(* init_s3.py: a three-statement script.  It builds an S3 client from the  *)
(* process environment (line 3), asks the backend to create one bucket     *)
(* (line 10) and prints a confirmation (line 12).  The model keeps the     *)
(* process environment, the storage backend and its buckets, and the       *)
(* position, outputs and exit status of the running process; the program   *)
(* may be run again against the same backend with the same environment.    *)
(***************************************************************************)
EXTENDS Naturals, Sequences, FiniteSets

VARIABLES
    env,         \* the process environment: a map from the variables that are set to their text
    backend,     \* what the storage service does with a request (network, credentials, names, duplicates)
    buckets,     \* the buckets the backend holds; persists from run to run
    run,         \* number of the current process invocation
    pc,          \* the statement the process is at: "line3", "line10", "line12", "exited"
    steps,       \* the statements executed so far in this run, in order
    ctorCalls,   \* the keyword arguments of each boto3.client call of this run
    client,      \* s3_client: "unbound" until line 3 has assigned it, then "s3"
    nameReads,   \* reads of S3_BUCKET_NAME in this run
    requests,    \* the Bucket= argument of each create_bucket call of this run
    resp,        \* outcome of the create_bucket call: "none", "ok" or the error raised
    added,       \* the buckets the backend added during this run
    msgName,     \* the name formatted into the message, "" before line 12
    stdout,      \* the lines printed
    stderr,      \* the exception the interpreter reported, "" if none
    exitStatus,  \* the exit status, meaningful once pc = "exited"
    buckets0,    \* the backend's buckets when this run started
    log          \* the finished runs

vars == <<env, backend, buckets, run, pc, steps, ctorCalls, client, nameReads,
          requests, resp, added, msgName, stdout, stderr, exitStatus, buckets0, log>>

\* The program is run at most MaxRuns times against the same backend.
MaxRuns == 2

(***************************************************************************)
(* Python values: None, or a str.                                          *)
(***************************************************************************)
None == [tag |-> "none", s |-> ""]

Str(s) == [tag |-> "str", s |-> s]

EnvNames == {"S3_ENDPOINT", "S3_ACCESS_KEY_ID", "S3_SECRET_ACCESS_KEY", "S3_BUCKET_NAME"}

\* The texts each variable may be set to.
EnvValues(n) ==
    CASE n = "S3_ENDPOINT" -> {"http://minio:9000", "minio:9000"}
      [] n = "S3_ACCESS_KEY_ID" -> {"minioadmin"}
      [] n = "S3_SECRET_ACCESS_KEY" -> {"minio-secret"}
      [] n = "S3_BUCKET_NAME" -> {"", "None", "exit-debt"}

AllEnvValues == UNION {EnvValues(n) : n \in EnvNames}

\* Every environment: any subset of the four variables set, each to one of its texts.
Environments ==
    UNION {{f \in [D -> AllEnvValues] : \A n \in D : f[n] \in EnvValues(n)} : D \in SUBSET EnvNames}

\* os.getenv(name): the value as a str, None when the variable is not set.
getenv_default_empty(name) == IF name \in DOMAIN env THEN Str(env[name]) ELSE Str("")

getenv(name) == IF name \in DOMAIN env THEN Str(env[name]) ELSE None

\* str(x): a str is itself, None is the text None.
str_none_empty(x) == IF x.tag = "none" THEN "" ELSE x.s

str(x) == IF x.tag = "none" THEN "None" ELSE x.s

\* f"{x}": format(x, ""), which for a str and for None is str(x).
format_repr(x) == IF x.tag = "none" THEN "None" ELSE "'" \o x.s \o "'"

format(x) == IF x.tag = "none" THEN "None" ELSE x.s

(***************************************************************************)
(* The SDK and the backend, as seen from the two call sites.               *)
(***************************************************************************)
\* Endpoint texts the SDK accepts as a URL.
ValidEndpoints == {"http://minio:9000"}

\* Every backend: the network path to it, whether it accepts the credentials the
\* client presents, the bucket names it accepts, and whether it rejects the
\* creation of a bucket it already holds.
Backends ==
    [net : {"up", "down", "drops_reply"},
     authOk : BOOLEAN,
     rejectsDup : BOOLEAN,
     validNames : {{"exit-debt"}, {"exit-debt", "None"}}]

\* boto3.client("s3", endpoint_url=, aws_access_key_id=, aws_secret_access_key=):
\* builds the client without touching the network; raises ValueError for an
\* endpoint that is not a URL; absent arguments are left to the SDK's defaults.
boto3_client(args) ==
    IF args.endpoint_url.tag = "str" /\ args.endpoint_url.s \notin ValidEndpoints
    THEN [err |-> "ValueError"]
    ELSE [err |-> ""]

\* s3_client.create_bucket(Bucket=name): what is raised ("" if nothing) and
\* whether the backend applied the request.
create_bucket(name) ==
    IF name \notin backend.validNames THEN [err |-> "InvalidBucketName", applied |-> FALSE]
    ELSE IF backend.net = "down" THEN [err |-> "EndpointConnectionError", applied |-> FALSE]
    ELSE IF ~backend.authOk THEN [err |-> "AccessDenied", applied |-> FALSE]
    ELSE IF name \in buckets /\ backend.rejectsDup
         THEN [err |-> "BucketAlreadyExists", applied |-> FALSE]
    ELSE IF backend.net = "drops_reply" THEN [err |-> "ReadTimeoutError", applied |-> TRUE]
    ELSE [err |-> "", applied |-> TRUE]

(***************************************************************************)
(* The process.                                                            *)
(***************************************************************************)
Init ==
    /\ env \in Environments
    /\ backend \in Backends
    /\ buckets \in SUBSET {"exit-debt", "None"}
    /\ buckets0 = buckets
    /\ run = 1
    /\ pc = "line3"
    /\ steps = <<>>
    /\ ctorCalls = <<>>
    /\ client = "unbound"
    /\ nameReads = 0
    /\ requests = <<>>
    /\ resp = "none"
    /\ added = <<>>
    /\ msgName = ""
    /\ stdout = <<>>
    /\ stderr = ""
    /\ exitStatus = 0
    /\ log = <<>>

\* An exception nothing catches: the interpreter reports it and exits with status 1.
Raise_swallowed(err) ==
    /\ pc' = "line12"
    /\ stderr' = err
    /\ exitStatus' = exitStatus

Raise(err) ==
    /\ pc' = "exited"
    /\ stderr' = err
    /\ exitStatus' = 1

\* Lines 3-8: s3_client = boto3.client("s3", endpoint_url=os.getenv(...), ...)
ConstructClient_twice ==
    /\ pc = "line3"
    /\ LET args == [endpoint_url |-> getenv("S3_ENDPOINT"),
                    aws_access_key_id |-> getenv("S3_ACCESS_KEY_ID"),
                    aws_secret_access_key |-> getenv("S3_SECRET_ACCESS_KEY")]
           r == boto3_client(args)
       IN /\ ctorCalls' = ctorCalls \o <<args, args>>
          /\ steps' = Append(steps, "construct")
          /\ IF r.err = ""
             THEN /\ client' = "s3"
                  /\ pc' = "line10"
                  /\ UNCHANGED <<stderr, exitStatus>>
             ELSE /\ Raise(r.err)
                  /\ UNCHANGED client
    /\ UNCHANGED <<env, backend, buckets, run, nameReads, requests, resp, added,
                   msgName, stdout, buckets0, log>>

\* Line 3, wrongly falling back to the SDK's default endpoint when construction raises.
ConstructClient_fallback ==
    /\ pc = "line3"
    /\ LET args == [endpoint_url |-> getenv("S3_ENDPOINT"),
                    aws_access_key_id |-> getenv("S3_ACCESS_KEY_ID"),
                    aws_secret_access_key |-> getenv("S3_SECRET_ACCESS_KEY")]
       IN /\ ctorCalls' = Append(ctorCalls, args)
          /\ steps' = Append(steps, "construct")
          /\ client' = "s3"
          /\ pc' = "line10"
    /\ UNCHANGED <<env, backend, buckets, run, nameReads, requests, resp, added,
                   msgName, stdout, stderr, exitStatus, buckets0, log>>

ConstructClient ==
    /\ pc = "line3"
    /\ LET args == [endpoint_url |-> getenv("S3_ENDPOINT"),
                    aws_access_key_id |-> getenv("S3_ACCESS_KEY_ID"),
                    aws_secret_access_key |-> getenv("S3_SECRET_ACCESS_KEY")]
           r == boto3_client(args)
       IN /\ ctorCalls' = Append(ctorCalls, args)
          /\ steps' = Append(steps, "construct")
          /\ IF r.err = ""
             THEN /\ client' = "s3"
                  /\ pc' = "line10"
                  /\ UNCHANGED <<stderr, exitStatus>>
             ELSE /\ Raise(r.err)
                  /\ UNCHANGED client
    /\ UNCHANGED <<env, backend, buckets, run, nameReads, requests, resp, added,
                   msgName, stdout, buckets0, log>>

\* Line 10, wrongly calling again when the call raises.
CreateBucket_retry ==
    /\ pc = "line10"
    /\ LET name == str(getenv("S3_BUCKET_NAME"))
           r == create_bucket(name)
       IN /\ nameReads' = nameReads + 1
          /\ requests' = Append(requests, name)
          /\ steps' = Append(steps, "create")
          /\ resp' = IF r.err = "" THEN "ok" ELSE r.err
          /\ buckets' = IF r.applied THEN buckets \cup {name} ELSE buckets
          /\ added' = IF r.applied /\ name \notin buckets THEN Append(added, name) ELSE added
          /\ IF r.err = ""
             THEN /\ pc' = "line12"
                  /\ UNCHANGED <<stderr, exitStatus>>
             ELSE /\ pc' = "line10"
                  /\ stderr' = r.err
                  /\ UNCHANGED exitStatus
    /\ UNCHANGED <<env, backend, run, ctorCalls, client, msgName, stdout, buckets0, log>>

\* Line 10, wrongly treating an already existing bucket as created.
CreateBucket_ignoreExists ==
    /\ pc = "line10"
    /\ LET name == str(getenv("S3_BUCKET_NAME"))
           r == create_bucket(name)
       IN /\ nameReads' = nameReads + 1
          /\ requests' = Append(requests, name)
          /\ steps' = Append(steps, "create")
          /\ resp' = IF r.err = "" THEN "ok" ELSE r.err
          /\ buckets' = IF r.applied THEN buckets \cup {name} ELSE buckets
          /\ added' = IF r.applied /\ name \notin buckets THEN Append(added, name) ELSE added
          /\ IF r.err = "" \/ r.err = "BucketAlreadyExists"
             THEN /\ pc' = "line12"
                  /\ UNCHANGED <<stderr, exitStatus>>
             ELSE /\ Raise(r.err)
    /\ UNCHANGED <<env, backend, run, ctorCalls, client, msgName, stdout, buckets0, log>>

\* Line 10: s3_client.create_bucket(Bucket=str(os.getenv("S3_BUCKET_NAME")))
CreateBucket ==
    /\ pc = "line10"
    /\ LET name == str(getenv("S3_BUCKET_NAME"))
           r == create_bucket(name)
       IN /\ nameReads' = nameReads + 1
          /\ requests' = Append(requests, name)
          /\ steps' = Append(steps, "create")
          /\ resp' = IF r.err = "" THEN "ok" ELSE r.err
          /\ buckets' = IF r.applied THEN buckets \cup {name} ELSE buckets
          /\ added' = IF r.applied /\ name \notin buckets THEN Append(added, name) ELSE added
          /\ IF r.err = ""
             THEN /\ pc' = "line12"
                  /\ UNCHANGED <<stderr, exitStatus>>
             ELSE /\ Raise(r.err)
    /\ UNCHANGED <<env, backend, run, ctorCalls, client, msgName, stdout, buckets0, log>>

\* Line 12 without the f prefix: the braces are printed as written.
PrintConfirmation_no_fprefix ==
    /\ pc = "line12"
    /\ LET shown == format(getenv("S3_BUCKET_NAME"))
       IN /\ nameReads' = nameReads + 1
          /\ msgName' = shown
          /\ stdout' = Append(stdout, "Bucket {os.getenv('S3_BUCKET_NAME')} created successfully")
    /\ steps' = Append(steps, "print")
    /\ pc' = "exited"
    /\ exitStatus' = 0
    /\ UNCHANGED <<env, backend, buckets, run, ctorCalls, client, requests, resp,
                   added, stderr, buckets0, log>>

\* Line 12: print(f"Bucket {os.getenv('S3_BUCKET_NAME')} created successfully"), the
\* last statement: the interpreter then exits with status 0.
PrintConfirmation ==
    /\ pc = "line12"
    /\ LET shown == format(getenv("S3_BUCKET_NAME"))
       IN /\ nameReads' = nameReads + 1
          /\ msgName' = shown
          /\ stdout' = Append(stdout, "Bucket " \o shown \o " created successfully")
    /\ steps' = Append(steps, "print")
    /\ pc' = "exited"
    /\ exitStatus' = 0
    /\ UNCHANGED <<env, backend, buckets, run, ctorCalls, client, requests, resp,
                   added, stderr, buckets0, log>>

\* What a finished run leaves behind.
Outcome ==
    [exitStatus |-> exitStatus, stdout |-> stdout, stderr |-> stderr,
     requests |-> requests, ctorCalls |-> ctorCalls, added |-> added,
     before |-> buckets0, after |-> buckets]

\* The program is started again: same environment, same backend, a fresh process.
Rerun ==
    /\ pc = "exited"
    /\ run < MaxRuns
    /\ log' = Append(log, Outcome)
    /\ run' = run + 1
    /\ buckets0' = buckets
    /\ pc' = "line3"
    /\ steps' = <<>>
    /\ ctorCalls' = <<>>
    /\ client' = "unbound"
    /\ nameReads' = 0
    /\ requests' = <<>>
    /\ resp' = "none"
    /\ added' = <<>>
    /\ msgName' = ""
    /\ stdout' = <<>>
    /\ stderr' = ""
    /\ exitStatus' = 0
    /\ UNCHANGED <<env, backend, buckets>>

Next ==
    \/ ConstructClient
    \/ CreateBucket
    \/ PrintConfirmation
    \/ Rerun

Spec == Init /\ [][Next]_vars

(***************************************************************************)
(* Vocabulary of the properties.                                           *)
(***************************************************************************)
Done == pc = "exited"

\* The name the run is expected to request: the text of S3_BUCKET_NAME, or the
\* four characters None when the variable is not set.
RequestedName == IF "S3_BUCKET_NAME" \in DOMAIN env THEN env["S3_BUCKET_NAME"] ELSE "None"

ConfirmationOf(n) == "Bucket " \o n \o " created successfully"

\* What each of the first three variables is expected to arrive as at the constructor.
PassedThrough(n) == IF n \in DOMAIN env THEN [tag |-> "str", s |-> env[n]] ELSE [tag |-> "none", s |-> ""]

ExpectedCtorArgs ==
    [endpoint_url |-> PassedThrough("S3_ENDPOINT"),
     aws_access_key_id |-> PassedThrough("S3_ACCESS_KEY_ID"),
     aws_secret_access_key |-> PassedThrough("S3_SECRET_ACCESS_KEY")]

\* The configuration makes client construction fail.
CtorFails == "S3_ENDPOINT" \in DOMAIN env /\ env["S3_ENDPOINT"] \notin ValidEndpoints

\* The configuration makes the create-bucket call of this run fail.
CallFails ==
    \/ backend.net # "up"
    \/ ~backend.authOk
    \/ RequestedName \notin backend.validNames
    \/ (RequestedName \in buckets0 /\ backend.rejectsDup)

SdkErrors ==
    {"ValueError", "InvalidBucketName", "EndpointConnectionError", "AccessDenied",
     "BucketAlreadyExists", "ReadTimeoutError"}

(***************************************************************************)
(* C1                                                                      *)
(***************************************************************************)
\* C1 as stated: whenever client construction succeeded, the backend is reachable
\* and did not hold the requested bucket at the start of the run, the finished
\* run has added exactly that one bucket, exited 0 and printed the confirmation.
C1_AsStated ==
    (Done /\ client = "s3" /\ backend.net = "up" /\ RequestedName \notin buckets0)
        => /\ added = <<RequestedName>>
           /\ buckets = buckets0 \cup {RequestedName}
           /\ exitStatus = 0
           /\ stdout = <<ConfirmationOf(RequestedName)>>

\* C1 amended: the same, for the runs in which the backend also accepts the
\* credentials and the requested name (the text of S3_BUCKET_NAME, None if unset).
C1_CreatesOneBucket ==
    (Done /\ client = "s3" /\ backend.net = "up" /\ RequestedName \notin buckets0
          /\ backend.authOk /\ RequestedName \in backend.validNames)
        => /\ added = <<RequestedName>>
           /\ buckets = buckets0 \cup {RequestedName}
           /\ exitStatus = 0
           /\ stdout = <<ConfirmationOf(RequestedName)>>

C1_Witness ==
    /\ Done /\ client = "s3" /\ backend.net = "up" /\ RequestedName \notin buckets0
    /\ backend.authOk /\ RequestedName \in backend.validNames
    /\ added = <<"exit-debt">> /\ exitStatus = 0

(***************************************************************************)
(* C2                                                                      *)
(***************************************************************************)
\* C2: in every state of every run at most one create-bucket request has been
\* sent, in this run and in each finished run, and once the request has failed
\* the process has exited (no second attempt).
C2_AtMostOneRequest ==
    /\ Len(requests) \in {0, 1}
    /\ \A i \in 1..Len(log) : Len(log[i].requests) \in {0, 1}
    /\ (resp \notin {"none", "ok"}) => (Done /\ Len(requests) = 1)

C2_Witness == Done /\ resp = "EndpointConnectionError" /\ Len(requests) = 1 /\ run = MaxRuns

(***************************************************************************)
(* C3                                                                      *)
(***************************************************************************)
\* C3: a finished run in which client construction or the create-bucket call
\* failed (bad endpoint, unreachable backend, rejected credentials, invalid name,
\* bucket already there) has a non-zero exit status, an exception reported and
\* nothing printed.
C3_FailurePropagates ==
    (Done /\ (CtorFails \/ CallFails \/ stderr # "" \/ resp \notin {"none", "ok"}))
        => /\ exitStatus # 0
           /\ stderr \in SdkErrors
           /\ stdout = <<>>

C3_Witness == Done /\ ~CtorFails /\ stderr = "AccessDenied" /\ exitStatus = 1 /\ stdout = <<>>

(***************************************************************************)
(* C4                                                                      *)
(***************************************************************************)
\* C4: with S3_BUCKET_NAME unset, the request sent names the bucket None, and a
\* successful run prints exactly "Bucket None created successfully": the call
\* site and the message site use the same text.
C4_UnsetNameIsNone ==
    ("S3_BUCKET_NAME" \notin DOMAIN env)
        => /\ (pc \in {"line12", "exited"} /\ client = "s3") => requests = <<"None">>
           /\ (Done /\ resp = "ok")
                => (stdout = <<"Bucket None created successfully">> /\ msgName = "None")

C4_Witness ==
    /\ "S3_BUCKET_NAME" \notin DOMAIN env
    /\ Done /\ resp = "ok"
    /\ requests = <<"None">>
    /\ stdout = <<"Bucket None created successfully">>

(***************************************************************************)
(* C5                                                                      *)
(***************************************************************************)
\* C5: whatever variables are set, line 3 can run and calls the constructor once
\* with the three values as they are (absent as None); once the client exists the
\* create-bucket call can run and is made; and every failure is one the SDK or
\* the backend raised, after the constructor was called.
C5_NoLocalValidation ==
    /\ pc = "line3" => ENABLED ConstructClient
    /\ pc # "line3" => ctorCalls = <<ExpectedCtorArgs>>
    /\ pc = "line10" => (client = "s3" /\ ENABLED CreateBucket)
    /\ (pc \in {"line12", "exited"} /\ client = "s3") => Len(requests) = 1
    /\ stderr # "" => (stderr \in SdkErrors /\ Len(ctorCalls) = 1)

C5_Witness == DOMAIN env = {} /\ Done /\ Len(ctorCalls) = 1 /\ Len(requests) = 1

(***************************************************************************)
(* C6                                                                      *)
(***************************************************************************)
\* C6: a run that follows a successful run with the same configuration ends as
\* the backend treats the creation of a bucket it already holds: rejected, the
\* run exits non-zero with BucketAlreadyExists and prints nothing; accepted as a
\* no-op, it exits 0 and prints the same line again.  Either way nothing is added.
C6_SecondRunFollowsBackend ==
    \A i \in 1..Len(log) :
        (Done /\ log[i].exitStatus = 0)
            => /\ added = <<>>
               /\ buckets = log[i].after
               /\ IF backend.rejectsDup
                  THEN exitStatus = 1 /\ stderr = "BucketAlreadyExists" /\ stdout = <<>>
                  ELSE exitStatus = 0 /\ stderr = "" /\ stdout = log[i].stdout

C6_Witness ==
    /\ Done /\ Len(log) >= 1
    /\ log[1].exitStatus = 0 /\ log[1].added = <<RequestedName>>
    /\ exitStatus = 1 /\ stdout = <<>>

(***************************************************************************)
(* C7                                                                      *)
(***************************************************************************)
\* C7 as stated: one constructor call, one use of the client, and a single read
\* of S3_BUCKET_NAME per run, whose value is both the argument and the name in
\* the message.
C7_AsStated ==
    /\ Len(ctorCalls) <= 1
    /\ Len(requests) <= 1
    /\ nameReads <= 1
    /\ stdout # <<>> => msgName = requests[1]

\* C7 amended: one constructor call and one use of the client per run;
\* S3_BUCKET_NAME is read once for the create-bucket call and once more for each
\* line printed, so at most twice, and the name in the message is the argument
\* of the call.
C7_ReadsAndUses ==
    /\ Len(ctorCalls) <= 1
    /\ Len(requests) <= 1
    /\ (Done /\ client = "s3") => Len(requests) = 1
    /\ nameReads = Len(requests) + Len(stdout)
    /\ nameReads <= 2
    /\ stdout # <<>> => (msgName = requests[1] /\ Len(ctorCalls) = 1)

C7_Witness == Done /\ nameReads = 2 /\ Len(ctorCalls) = 1 /\ Len(requests) = 1 /\ Len(stdout) = 1

(***************************************************************************)
(* C8                                                                      *)
(***************************************************************************)
\* C8: the statements run in the order construct, create, print, each at most
\* once; the request is sent only with a constructed client; and the message is
\* printed only after the one request has returned successfully.
C8_LinearOrder ==
    /\ steps \in {<<>>, <<"construct">>, <<"construct", "create">>,
                  <<"construct", "create", "print">>}
    /\ requests # <<>> => (client = "s3" /\ Len(ctorCalls) = 1)
    /\ stdout # <<>> => (Len(requests) = 1 /\ resp = "ok")

C8_Witness == steps = <<"construct", "create", "print">> /\ stdout # <<>> /\ resp = "ok"

(***************************************************************************)
(* C9                                                                      *)
(***************************************************************************)
\* C9: for the value S3_BUCKET_NAME has (unset, empty or any text), the text the
\* message site makes of it equals the text the call site makes of it, and the
\* line printed carries the name that was sent.
C9_SameNameAtBothSites ==
    /\ format(getenv("S3_BUCKET_NAME")) = str(getenv("S3_BUCKET_NAME"))
    /\ stdout # <<>> => stdout = <<ConfirmationOf(requests[1])>>

C9_Witness ==
    /\ "S3_BUCKET_NAME" \in DOMAIN env
    /\ requests = <<"exit-debt">>
    /\ stdout = <<"Bucket exit-debt created successfully">>

(***************************************************************************)
(* C10                                                                     *)
(***************************************************************************)
\* C10: while no client exists, and in a run whose client construction fails, no
\* request is sent and the backend's buckets are as the run found them; and a
\* failed run leaves them changed only by the backend having applied the one
\* request of the run.
C10_FailureFrame ==
    /\ (client = "unbound" \/ CtorFails)
          => (requests = <<>> /\ added = <<>> /\ buckets = buckets0)
    /\ (Done /\ exitStatus # 0 /\ buckets # buckets0)
          => (Len(requests) = 1 /\ added = requests /\ buckets = buckets0 \cup {requests[1]})

C10_Witness == Done /\ CtorFails /\ stderr = "ValueError" /\ exitStatus = 1 /\ requests = <<>>

\* A failed run that did change the backend: the request was applied and the reply lost.
C10_WitnessReplyLost == Done /\ exitStatus = 1 /\ buckets # buckets0 /\ resp = "ReadTimeoutError"

====
